---- MODULE Spec2Model ----
(***************************************************************************)
(* Expense approval workflow of the Django implementation:                *)
(* expenses/models.py (Expense and its django-fsm transitions),           *)
(* expenses/views.py (ExpenseViewSet request handlers),                   *)
(* authentication/models.py (User and its authorization helpers).         *)
(* Money is counted in cents (DecimalField with decimal_places=2).        *)
(* Time is counted in days; timezone.now() is the variable today.         *)
(***************************************************************************)
EXTENDS Integers, Sequences, FiniteSets, TLC

VARIABLES
    expenses,   \* the Expense table: a sequence of rows, the row's index is its id
    perms,      \* django-guardian object permissions: {<<user, perm, expense id>>}
    receipts,   \* the Receipt table: the number of receipts of each expense
    today,      \* the current day (timezone.now())
    last,       \* the most recent request and the response it got
    workers,    \* request handlers in flight (used by the concurrent specification)
    users       \* the User table (auth_user): the row of each user

vars == <<expenses, perms, receipts, today, last, workers, users>>

(***************************************************************************)
(* Bounds of the model.                                                    *)
(***************************************************************************)
MaxExpenses == 2          \* expenses in the specifications of the submission rules
LifeCycleExpenses == 1    \* expenses in the specifications of the whole life cycle
MaxReceipts == 1
MaxTicks == 1
ClockStep == 46
DaysPerMonth == 30
MaxWorkers == 2

\* an unset user reference
NULL == "null"

\* a nullable timestamp (and the JSON field payment_details): unset, or a value
Unset == <<>>

At(v) == <<v>>

(***************************************************************************)
(* settings.EXPENSE_RULES, in cents and days.                              *)
(***************************************************************************)
MAX_AMOUNT_WITHOUT_RECEIPT == 2500
MAX_EXPENSE_AGE_DAYS == 90
MANAGER_APPROVAL_LIMIT == 500000
VP_APPROVAL_LIMIT == 5000000
CFO_APPROVAL_LIMIT == 99999999
ENTERTAINMENT_REQUIRES_VP == 20000
MONTHLY_LIMIT_EMPLOYEE == 200000
MONTHLY_LIMIT_MANAGER == 500000
MONTHLY_LIMIT_VP == 1000000
MONTHLY_LIMIT_CFO == 99999999

ExpenseState == {"draft", "submitted", "approved", "compliance_hold", "rejected", "paid"}
ExpenseCategory == {"TRAVEL", "MEALS", "ACCOMMODATION", "ENTERTAINMENT", "SUPPLIES", "CAPITAL", "OTHER"}
Role == {"employee", "manager", "finance", "compliance", "vp", "cfo"}

(***************************************************************************)
(* The User table.  Rows are listed in primary-key order.  Limits are the  *)
(* stored values (User.save has filled the role defaults in).              *)
(***************************************************************************)
MONTHLY_SUBMISSION_LIMITS(role) ==
    CASE role = "employee" -> MONTHLY_LIMIT_EMPLOYEE
      [] role = "manager" -> MONTHLY_LIMIT_MANAGER
      [] role = "vp" -> MONTHLY_LIMIT_VP
      [] role = "cfo" -> MONTHLY_LIMIT_CFO
      [] OTHER -> MONTHLY_LIMIT_EMPLOYEE

get_default_approval_limit(role) ==
    CASE role = "employee" -> 0
      [] role = "manager" -> MANAGER_APPROVAL_LIMIT
      [] role = "finance" -> MANAGER_APPROVAL_LIMIT
      [] role = "compliance" -> MANAGER_APPROVAL_LIMIT
      [] role = "vp" -> VP_APPROVAL_LIMIT
      [] role = "cfo" -> CFO_APPROVAL_LIMIT
      [] OTHER -> 0

get_default_monthly_limit(role) == MONTHLY_SUBMISSION_LIMITS(role)

NewUser(pk, role, department, manager, approval_limit, monthly_expense_limit, active_approver) ==
    [pk |-> pk, role |-> role, department |-> department, manager |-> manager,
     approval_limit |-> approval_limit,
     monthly_expense_limit |-> monthly_expense_limit,
     is_active_approver |-> active_approver, is_active |-> TRUE]

\* a user stored without explicit limits: User.save fills in the role's defaults
DefaultUser(pk, role, department, manager, active_approver) ==
    NewUser(pk, role, department, manager, get_default_approval_limit(role),
            get_default_monthly_limit(role), active_approver)

UserOrder == <<"emp", "lead", "temp", "solo", "mgr", "mgr2", "mgrX", "fin", "finX",
               "comp", "compX", "vp", "vpX", "cfo", "cfoX", "head">>

Users == {UserOrder[k] : k \in 1..Len(UserOrder)}

\* "lead" has an administratively raised monthly limit; the names that end in X
\* are users whose is_active_approver flag is off
users_data ==
    [u \in Users |->
        CASE u = "emp" -> DefaultUser(1, "employee", "Engineering", "mgr", TRUE)
          [] u = "lead" -> NewUser(2, "employee", "Engineering", "mgr", 0, 20000000, TRUE)
          [] u = "temp" -> DefaultUser(3, "employee", "Engineering", "mgrX", TRUE)
          [] u = "solo" -> DefaultUser(4, "employee", "Legal", NULL, TRUE)
          [] u = "mgr" -> DefaultUser(5, "manager", "Engineering", "vp", TRUE)
          [] u = "mgr2" -> DefaultUser(6, "manager", "Sales", "vp", TRUE)
          [] u = "mgrX" -> DefaultUser(7, "manager", "Engineering", "vp", FALSE)
          [] u = "fin" -> DefaultUser(8, "finance", "Finance", NULL, TRUE)
          [] u = "finX" -> DefaultUser(9, "finance", "Finance", NULL, FALSE)
          [] u = "comp" -> DefaultUser(10, "compliance", "Compliance", NULL, TRUE)
          [] u = "compX" -> DefaultUser(11, "compliance", "Compliance", NULL, FALSE)
          [] u = "vp" -> DefaultUser(12, "vp", "Executive", "cfo", TRUE)
          [] u = "vpX" -> DefaultUser(13, "vp", "Executive", "cfo", FALSE)
          [] u = "cfo" -> DefaultUser(14, "cfo", "Executive", NULL, TRUE)
          [] u = "cfoX" -> DefaultUser(15, "cfo", "Executive", NULL, FALSE)
          [] u = "head" -> DefaultUser(16, "manager", "Legal", NULL, TRUE)]

\* User.objects: the rows as they are stored now
User == users

\* a stored row as the instance in memory: the two limits are nullable there
\* (None is Unset)
instance(row) ==
    [row EXCEPT !.approval_limit = At(@), !.monthly_expense_limit = At(@)]

\* User.save: "not self.approval_limit" holds of None and of 0.  The role is one
\* of the choices, never empty, so "self.role and" always passes.
User_save(u) ==
    [u EXCEPT !.approval_limit =
                 IF @ = Unset \/ @ = At(0) THEN get_default_approval_limit(u.role) ELSE @[1],
              !.monthly_expense_limit =
                 IF @ = Unset \/ @ = At(0) THEN get_default_monthly_limit(u.role) ELSE @[1]]

(***************************************************************************)
(* User's authorization helpers.                                           *)
(***************************************************************************)
\* the role test alone, without the is_active_approver flag
can_approve_expenses_by_role(u) ==
    User[u].role \in {"manager", "vp", "cfo"}

can_approve_expenses(u) ==
    User[u].role \in {"manager", "vp", "cfo"} /\ User[u].is_active_approver

can_process_payments(u) ==
    User[u].role = "finance" /\ User[u].is_active_approver

can_audit_expenses(u) ==
    User[u].role = "compliance" /\ User[u].is_active_approver

\* the override open to every active approver
can_executive_override_by_any_approver(u) ==
    User[u].role \in {"manager", "vp", "cfo"} /\ User[u].is_active_approver

can_executive_override(u) ==
    User[u].role \in {"vp", "cfo"} /\ User[u].is_active_approver

is_vp(u) == User[u].role = "vp"

is_cfo(u) == User[u].role = "cfo"

get_approval_limit(u) == User[u].approval_limit

get_monthly_expense_limit(u) == User[u].monthly_expense_limit

\* a user without a manager taken to be their own manager
get_direct_manager_or_self(u) == IF User[u].manager = NULL THEN u ELSE User[u].manager

get_direct_manager(u) == User[u].manager

\* a strict comparison with the limit
can_approve_amount_below_limit(u, amount) == get_approval_limit(u) > amount

can_approve_amount(u, amount) == get_approval_limit(u) >= amount

(***************************************************************************)
(* Expense rows.                                                           *)
(***************************************************************************)
NewExpense(employee, amount, category, vendor, date, department, description, now) ==
    [employee |-> employee, amount |-> amount, expense_category |-> category,
     currency |-> "USD", expense_date |-> date, vendor_id |-> vendor,
     department |-> department, description |-> description,
     state |-> "draft",
     manager |-> NULL, finance_user |-> NULL, compliance_user |-> NULL,
     submitted_at |-> Unset, approved_at |-> Unset, approved_by |-> NULL,
     processed_at |-> Unset, processed_by |-> NULL,
     rejected_at |-> Unset, rejection_reason |-> "",
     flagged_at |-> Unset, flagged_by |-> NULL, flag_reason |-> "",
     override_reason |-> "", payment_details |-> Unset,
     created_at |-> now]

Ids == 1..Len(expenses)

(***************************************************************************)
(* Expense.clean: the validation Expense.save runs before it writes.       *)
(* The result is the error raised, or "ok".  expense_date is a required    *)
(* field, so the test "if self.expense_date" always passes.                *)
(***************************************************************************)
clean(e, now) ==
    IF e.amount <= 0 THEN "Amount must be positive"
    ELSE IF Len(e.description) < 10 THEN "Description must be at least 10 characters"
    ELSE IF e.expense_date < now - MAX_EXPENSE_AGE_DAYS
    THEN "Expense date cannot be older than 90 days"
    ELSE "ok"

(***************************************************************************)
(* Rule evaluators.                                                        *)
(***************************************************************************)
month_start(now) == (now \div DaysPerMonth) * DaysPerMonth

RECURSIVE SumAmounts(_, _, _, _)
SumAmounts(rows, k, u, since) ==
    IF k = 0 THEN 0
    ELSE SumAmounts(rows, k - 1, u, since)
         + (IF rows[k].employee = u /\ rows[k].created_at >= since THEN rows[k].amount ELSE 0)

get_monthly_submitted_amount(u, rows, now) ==
    SumAmounts(rows, Len(rows), u, month_start(now))

blacklisted_vendors == {"VENDOR_BLACKLISTED", "SUSPICIOUS_CORP", "FRAUD_COMPANY"}

\* the vendor ids of the model that contain the substring "_BLOCKED"
VendorsWithBlockedMarker == {"ACME_BLOCKED"}

_is_vendor_blacklisted(e) ==
    \/ e.vendor_id \in blacklisted_vendors
    \/ (e.vendor_id # "" /\ e.vendor_id \in VendorsWithBlockedMarker)

\* a duplicate test that does not exclude the expense itself
_is_duplicate_expense_including_itself(e, id, rows) ==
    \E j \in 1..Len(rows) :
        /\ rows[j].employee = e.employee
        /\ rows[j].vendor_id = e.vendor_id
        /\ rows[j].amount = e.amount
        /\ rows[j].expense_date = e.expense_date

_is_duplicate_expense(e, id, rows) ==
    \E j \in 1..Len(rows) :
        /\ j # id
        /\ rows[j].employee = e.employee
        /\ rows[j].vendor_id = e.vendor_id
        /\ rows[j].amount = e.amount
        /\ rows[j].expense_date = e.expense_date

\* one ceiling for every department
_get_remaining_department_budget_flat(e) == 3000000

_get_remaining_department_budget(e) ==
    CASE e.department = "Engineering" -> 7500000
      [] e.department = "Marketing" -> 4500000
      [] e.department = "Sales" -> 6000000
      [] e.department = "Finance" -> 2500000
      [] e.department = "HR" -> 1500000
      [] OTHER -> 3000000

_has_payment_duplicate(e) == FALSE

_generate_payment_details(e, now) ==
    [processed_at |-> now, payment_method |-> "ACH_TRANSFER",
     vendor_id |-> e.vendor_id, amount |-> e.amount, currency |-> e.currency]

\* QuerySet.first() of an unordered queryset: the matching row of least pk
FirstUser(matching) ==
    LET ks == {k \in 1..Len(UserOrder) : UserOrder[k] \in matching}
    IN IF ks = {} THEN NULL
       ELSE UserOrder[CHOOSE k \in ks : \A m \in ks : k <= m]

_get_direct_manager(e) == get_direct_manager(e.employee)

\* the finance user looked up by role alone
_get_finance_user_of_any_department ==
    FirstUser({u \in Users : User[u].role = "finance" /\ User[u].is_active})

_get_finance_user ==
    FirstUser({u \in Users : User[u].role = "finance" /\ User[u].department = "Finance"
                              /\ User[u].is_active})

_get_compliance_user ==
    FirstUser({u \in Users : User[u].role = "compliance" /\ User[u].is_active})

\* submission permissions without the manager's approve permission
_update_submission_permissions_view_only(e, id) ==
    (IF e.manager # NULL THEN {<<e.manager, "view_expense", id>>} ELSE {})
    \cup (IF e.finance_user # NULL THEN {<<e.finance_user, "view_expense", id>>} ELSE {})

_update_submission_permissions(e, id) ==
    (IF e.manager # NULL
     THEN {<<e.manager, "view_expense", id>>, <<e.manager, "approve_expense", id>>}
     ELSE {})
    \cup (IF e.finance_user # NULL THEN {<<e.finance_user, "view_expense", id>>} ELSE {})

(***************************************************************************)
(* Business rule validation.  The result is the error raised, or "ok".     *)
(***************************************************************************)
\* submission rules that ask for a receipt only from 25.01 on, by a >= test
\* against the next cent
_validate_submission_rules_receipt_off_by_one(e, id, u, rows, nreceipts, now) ==
    IF e.amount > MAX_AMOUNT_WITHOUT_RECEIPT + 1 /\ nreceipts = 0
    THEN "Receipts required for amounts over $25"
    ELSE IF get_monthly_submitted_amount(u, rows, now) + e.amount > get_monthly_expense_limit(u)
    THEN "Monthly submission limit exceeded"
    ELSE IF _is_vendor_blacklisted(e)
    THEN "Vendor is currently under investigation"
    ELSE IF _is_duplicate_expense(e, id, rows)
    THEN "Potential duplicate expense detected"
    ELSE "ok"

_validate_submission_rules(e, id, u, rows, nreceipts, now) ==
    IF e.amount > MAX_AMOUNT_WITHOUT_RECEIPT /\ nreceipts = 0
    THEN "Receipts required for amounts over $25"
    ELSE IF get_monthly_submitted_amount(u, rows, now) + e.amount > get_monthly_expense_limit(u)
    THEN "Monthly submission limit exceeded"
    ELSE IF _is_vendor_blacklisted(e)
    THEN "Vendor is currently under investigation"
    ELSE IF _is_duplicate_expense(e, id, rows)
    THEN "Potential duplicate expense detected"
    ELSE "ok"

\* the entertainment rule applied from the threshold itself
_validate_approval_rules_entertainment_from_threshold(e, u) ==
    IF e.amount > _get_remaining_department_budget(e)
    THEN "Insufficient departmental budget"
    ELSE IF e.expense_category = "ENTERTAINMENT" /\ e.amount >= ENTERTAINMENT_REQUIRES_VP
            /\ ~is_vp(u) /\ ~is_cfo(u)
    THEN "Entertainment expenses over $200 require VP approval"
    ELSE "ok"

_validate_approval_rules(e, u) ==
    IF e.amount > _get_remaining_department_budget(e)
    THEN "Insufficient departmental budget"
    ELSE IF e.expense_category = "ENTERTAINMENT" /\ e.amount > ENTERTAINMENT_REQUIRES_VP
            /\ ~is_vp(u) /\ ~is_cfo(u)
    THEN "Entertainment expenses over $200 require VP approval"
    ELSE "ok"

_validate_payment_processing_rules(e, u) ==
    IF _has_payment_duplicate(e) THEN "Duplicate payment detected" ELSE "ok"

(***************************************************************************)
(* The transition methods of Expense.  Each works on the in-memory         *)
(* instance e and yields the exception raised ("ok" if none), the          *)
(* instance afterwards, and the object permissions it assigned (guardian   *)
(* writes them to the database at once).                                   *)
(* django-fsm's @transition raises TransitionNotAllowed unless the state   *)
(* is one of the sources, then runs the method body, and sets the target   *)
(* state only if the body raised nothing.                                  *)
(***************************************************************************)
Result(error, e, grants) == [error |-> error, e |-> e, grants |-> grants]

\* a transition table whose withdraw is also open to approved expenses
SourcesWithdrawApproved(op) ==
    CASE op = "submit" -> {"draft"}
      [] op = "approve" -> {"submitted"}
      [] op = "process_payment" -> {"approved"}
      [] op = "reject" -> {"submitted", "compliance_hold"}
      [] op = "withdraw" -> {"submitted", "approved"}
      [] op = "flag_suspicious" -> ExpenseState
      [] op = "executive_override" -> ExpenseState

\* a transition table whose process_payment is also open to paid expenses
SourcesPayPaid(op) ==
    CASE op = "submit" -> {"draft"}
      [] op = "approve" -> {"submitted"}
      [] op = "process_payment" -> {"approved", "paid"}
      [] op = "reject" -> {"submitted", "compliance_hold"}
      [] op = "withdraw" -> {"submitted"}
      [] op = "flag_suspicious" -> ExpenseState
      [] op = "executive_override" -> ExpenseState

\* a transition table whose withdraw is also open to expenses on compliance hold
SourcesWithdrawHold(op) ==
    CASE op = "submit" -> {"draft"}
      [] op = "approve" -> {"submitted"}
      [] op = "process_payment" -> {"approved"}
      [] op = "reject" -> {"submitted", "compliance_hold"}
      [] op = "withdraw" -> {"submitted", "compliance_hold"}
      [] op = "flag_suspicious" -> ExpenseState
      [] op = "executive_override" -> ExpenseState

\* a transition table whose approve is also open to expenses on compliance hold
SourcesApproveHold(op) ==
    CASE op = "submit" -> {"draft"}
      [] op = "approve" -> {"submitted", "compliance_hold"}
      [] op = "process_payment" -> {"approved"}
      [] op = "reject" -> {"submitted", "compliance_hold"}
      [] op = "withdraw" -> {"submitted"}
      [] op = "flag_suspicious" -> ExpenseState
      [] op = "executive_override" -> ExpenseState

Sources(op) ==
    CASE op = "submit" -> {"draft"}
      [] op = "approve" -> {"submitted"}
      [] op = "process_payment" -> {"approved"}
      [] op = "reject" -> {"submitted", "compliance_hold"}
      [] op = "withdraw" -> {"submitted"}
      [] op = "flag_suspicious" -> ExpenseState
      [] op = "executive_override" -> ExpenseState

Target(op) ==
    CASE op = "submit" -> "submitted"
      [] op = "approve" -> "approved"
      [] op = "process_payment" -> "paid"
      [] op = "reject" -> "rejected"
      [] op = "withdraw" -> "draft"
      [] op = "flag_suspicious" -> "compliance_hold"
      [] op = "executive_override" -> "approved"

transition(op, e, body) ==
    IF e.state \notin Sources(op) THEN Result("TransitionNotAllowed", e, {})
    ELSE IF body.error # "ok" THEN body
    ELSE [body EXCEPT !.e.state = Target(op)]

\* submit that checks ownership only for users of role employee
submit_owner_check_for_employees(e, id, user, rows, nreceipts, now) ==
    transition("submit", e,
        IF user # e.employee /\ User[user].role = "employee"
        THEN Result("Only the expense owner can submit", e, {})
        ELSE LET rule == _validate_submission_rules(e, id, user, rows, nreceipts, now)
                 e1 == [e EXCEPT !.manager = _get_direct_manager(e),
                                 !.finance_user = _get_finance_user,
                                 !.compliance_user = _get_compliance_user,
                                 !.submitted_at = At(now)]
             IN IF rule # "ok" THEN Result(rule, e, {})
                ELSE Result("ok", e1, _update_submission_permissions(e1, id)))

submit(e, id, user, rows, nreceipts, now) ==
    transition("submit", e,
        IF user # e.employee THEN Result("Only the expense owner can submit", e, {})
        ELSE LET rule == _validate_submission_rules(e, id, user, rows, nreceipts, now)
                 e1 == [e EXCEPT !.manager = _get_direct_manager(e),
                                 !.finance_user = _get_finance_user,
                                 !.compliance_user = _get_compliance_user,
                                 !.submitted_at = At(now)]
             IN IF rule # "ok" THEN Result(rule, e, {})
                ELSE Result("ok", e1, _update_submission_permissions(e1, id)))

\* approve that validates the approval rules before the approval limit
approve_rules_before_limit(e, user, now) ==
    transition("approve", e,
        IF ~can_approve_expenses(user) THEN Result("User cannot approve expenses", e, {})
        ELSE IF User[user].role = "manager" /\ e.manager = NULL
        THEN Result("AttributeError", e, {})
        ELSE IF User[user].role = "manager" /\ e.manager # user
        THEN Result("Manager can only approve direct reports", e, {})
        ELSE LET rule == _validate_approval_rules(e, user)
             IN IF rule # "ok" THEN Result(rule, e, {})
                ELSE IF ~can_approve_amount(user, e.amount)
                THEN Result("Amount exceeds approval limit", e, {})
                ELSE Result("ok", [e EXCEPT !.approved_at = At(now),
                                            !.approved_by = user], {}))

approve(e, user, now) ==
    transition("approve", e,
        IF ~can_approve_expenses(user) THEN Result("User cannot approve expenses", e, {})
        ELSE IF User[user].role = "manager" /\ e.manager = NULL
        THEN Result("AttributeError", e, {})     \* self.manager.id with manager None
        ELSE IF User[user].role = "manager" /\ e.manager # user
        THEN Result("Manager can only approve direct reports", e, {})
        ELSE IF ~can_approve_amount(user, e.amount)
        THEN Result("Amount exceeds approval limit", e, {})
        ELSE LET rule == _validate_approval_rules(e, user)
             IN IF rule # "ok" THEN Result(rule, e, {})
                ELSE Result("ok", [e EXCEPT !.approved_at = At(now),
                                            !.approved_by = user], {}))

process_payment(e, user, now) ==
    transition("process_payment", e,
        IF ~can_process_payments(user) THEN Result("User cannot process payments", e, {})
        ELSE LET rule == _validate_payment_processing_rules(e, user)
             IN IF rule # "ok" THEN Result(rule, e, {})
                ELSE Result("ok", [e EXCEPT !.processed_at = At(now),
                                            !.processed_by = user,
                                            !.payment_details = At(_generate_payment_details(e, now))],
                            {}))

\* reject with the ownership condition of approve
reject_by_assigned_manager(e, user, reason, now) ==
    transition("reject", e,
        IF ~can_approve_expenses(user) THEN Result("User cannot reject expenses", e, {})
        ELSE IF User[user].role = "manager" /\ e.manager # user
        THEN Result("Manager can only reject direct reports", e, {})
        ELSE Result("ok", [e EXCEPT !.rejected_at = At(now), !.rejection_reason = reason], {}))

reject(e, user, reason, now) ==
    transition("reject", e,
        IF ~can_approve_expenses(user) THEN Result("User cannot reject expenses", e, {})
        ELSE Result("ok", [e EXCEPT !.rejected_at = At(now), !.rejection_reason = reason], {}))

\* withdraw that leaves the compliance user assigned
withdraw_keeping_compliance_user(e, user) ==
    transition("withdraw", e,
        IF user # e.employee THEN Result("Only the expense owner can withdraw", e, {})
        ELSE Result("ok", [e EXCEPT !.submitted_at = Unset, !.manager = NULL,
                                    !.finance_user = NULL], {}))

withdraw(e, user) ==
    transition("withdraw", e,
        IF user # e.employee THEN Result("Only the expense owner can withdraw", e, {})
        ELSE Result("ok", [e EXCEPT !.submitted_at = Unset, !.manager = NULL,
                                    !.finance_user = NULL, !.compliance_user = NULL], {}))

\* flag_suspicious that also makes the flagging user the compliance user
flag_suspicious_assigning_compliance_user(e, user, reason, now) ==
    transition("flag_suspicious", e,
        IF ~can_audit_expenses(user) THEN Result("User cannot flag expenses", e, {})
        ELSE Result("ok", [e EXCEPT !.flagged_at = At(now), !.flagged_by = user,
                                    !.flag_reason = reason, !.compliance_user = user], {}))

flag_suspicious(e, user, reason, now) ==
    transition("flag_suspicious", e,
        IF ~can_audit_expenses(user) THEN Result("User cannot flag expenses", e, {})
        ELSE Result("ok", [e EXCEPT !.flagged_at = At(now), !.flagged_by = user,
                                    !.flag_reason = reason], {}))

\* executive_override that records the time but not the approver
executive_override_without_approver(e, user, reason, now) ==
    transition("executive_override", e,
        IF ~can_executive_override(user)
        THEN Result("User cannot perform executive override", e, {})
        ELSE Result("ok", [e EXCEPT !.approved_at = At(now), !.override_reason = reason], {}))

executive_override(e, user, reason, now) ==
    transition("executive_override", e,
        IF ~can_executive_override(user)
        THEN Result("User cannot perform executive override", e, {})
        ELSE Result("ok", [e EXCEPT !.approved_at = At(now), !.approved_by = user,
                                    !.override_reason = reason], {}))

(***************************************************************************)
(* The request handlers of ExpenseViewSet.                                 *)
(***************************************************************************)
Transitions == {"submit", "approve", "reject", "withdraw", "process_payment",
                "flag_suspicious", "executive_override"}

WithReason == {"reject", "flag_suspicious", "executive_override"}

\* ExpenseViewSet.get_queryset: the expenses the user can address
get_queryset(user, rows) ==
    LET role == User[user].role
    IN {i \in 1..Len(rows) :
          CASE role = "compliance" -> TRUE
            [] role \in {"vp", "cfo"} -> TRUE
            [] role = "finance" ->
                 rows[i].employee = user \/ rows[i].state \in {"approved", "paid"}
            [] role = "manager" ->
                 \/ rows[i].employee = user
                 \/ User[rows[i].employee].manager = user
                 \/ rows[i].manager = user
            [] OTHER -> rows[i].employee = user}

\* ExpenseActionSerializer: the reason is absent (Unset) or a string
validate_reason(op, reason) ==
    IF reason # Unset /\ op \in WithReason /\ reason[1] = ""
    THEN "Reason is required"
    ELSE "ok"

validated_reason(reason) == IF reason = Unset THEN "" ELSE reason[1]

\* the call of the model's transition method the handler of op makes
Call(op, e, id, user, reason, rows, nreceipts, now) ==
    CASE op = "submit" -> submit(e, id, user, rows, nreceipts, now)
      [] op = "approve" -> approve(e, user, now)
      [] op = "reject" -> reject(e, user, validated_reason(reason), now)
      [] op = "withdraw" -> withdraw(e, user)
      [] op = "process_payment" -> process_payment(e, user, now)
      [] op = "flag_suspicious" -> flag_suspicious(e, user, validated_reason(reason), now)
      [] op = "executive_override" -> executive_override(e, user, validated_reason(reason), now)

(***************************************************************************)
(* The permission classes of permissions.py, for a user and an expense     *)
(* row.  No view lists them in its permission_classes.                     *)
(***************************************************************************)
CanApproveExpense(user, obj) ==
    IF ~can_approve_expenses(user) THEN FALSE
    ELSE IF obj.state # "submitted" THEN FALSE
    ELSE IF User[user].role = "manager" THEN obj.manager # NULL /\ obj.manager = user
    ELSE IF User[user].role \in {"vp", "cfo"}
    THEN \/ obj.amount > 1000000
         \/ (obj.expense_category = "ENTERTAINMENT" /\ obj.amount > 20000)
    ELSE FALSE

ALLOWED_TRANSITIONS(action) ==
    CASE action = "submit" ->
           [from_states |-> {"draft"}, required_roles |-> {"employee"}, owner_only |-> TRUE]
      [] action = "approve" ->
           [from_states |-> {"submitted"}, required_roles |-> {"manager", "vp", "cfo"},
            owner_only |-> FALSE]
      [] action = "reject" ->
           [from_states |-> {"submitted", "compliance_hold"},
            required_roles |-> {"manager", "vp", "cfo"}, owner_only |-> FALSE]
      [] action = "withdraw" ->
           [from_states |-> {"submitted"}, required_roles |-> {"employee"}, owner_only |-> TRUE]
      [] action = "process_payment" ->
           [from_states |-> {"approved"}, required_roles |-> {"finance"}, owner_only |-> FALSE]
      [] action = "flag_suspicious" ->
           [from_states |-> ExpenseState, required_roles |-> {"compliance"},
            owner_only |-> FALSE]
      [] action = "executive_override" ->
           [from_states |-> ExpenseState, required_roles |-> {"vp", "cfo"},
            owner_only |-> FALSE]

ExpenseStatePermission(action, user, obj) ==
    IF action \notin Transitions THEN TRUE
    ELSE LET t == ALLOWED_TRANSITIONS(action)
         IN /\ obj.state \in t.from_states
            /\ User[user].role \in t.required_roles
            /\ (t.owner_only => obj.employee = user)

BusinessRulePermission(action, user, obj, id, rows, nreceipts, now) ==
    CASE action = "submit" -> _validate_submission_rules(obj, id, user, rows, nreceipts, now) = "ok"
      [] action = "approve" -> _validate_approval_rules(obj, user) = "ok"
      [] action = "process_payment" -> _validate_payment_processing_rules(obj, user) = "ok"
      [] OTHER -> TRUE

\* has_object_permission for a request whose view.action is approve
ExpenseApprovalPermission(user, obj, id, rows, nreceipts, now) ==
    /\ CanApproveExpense(user, obj)
    /\ ExpenseStatePermission("approve", user, obj)
    /\ BusinessRulePermission("approve", user, obj, id, rows, nreceipts, now)

\* exceptions the handlers do not catch: the request ends in a server error
Uncaught == {"TransitionNotAllowed", "AttributeError"}

Response(op, user, id, status, error) ==
    [op |-> op, actor |-> user, id |-> id, status |-> status, error |-> error]

\* Expense.save: the department defaults to the employee's
with_department(e) ==
    IF e.department = "" THEN [e EXCEPT !.department = User[e.employee].department] ELSE e

(***************************************************************************)
(* The handler after get_object has loaded the instance e: the permission  *)
(* check of executive_override, the serializer, the transition method and  *)
(* expense.save().  The outcome names the response, whether the row is     *)
(* written, the row, and the permissions assigned on the way.              *)
(***************************************************************************)
Handle(op, e, id, user, reason, rows, nreceipts, now) ==
    IF op = "executive_override" /\ ~can_executive_override(user)
    THEN [status |-> 403, error |-> "Permission denied", saved |-> FALSE, e |-> e, grants |-> {}]
    ELSE IF validate_reason(op, reason) # "ok"
    THEN [status |-> 400, error |-> validate_reason(op, reason), saved |-> FALSE,
          e |-> e, grants |-> {}]
    ELSE LET res == Call(op, e, id, user, reason, rows, nreceipts, now)
             cleaned == clean(with_department(res.e), now)
         IN IF res.error \in Uncaught
            THEN [status |-> 500, error |-> res.error, saved |-> FALSE, e |-> e,
                  grants |-> res.grants]
            ELSE IF res.error # "ok"
            THEN [status |-> 400, error |-> res.error, saved |-> FALSE, e |-> e,
                  grants |-> res.grants]
            ELSE IF cleaned # "ok"
            THEN [status |-> 400, error |-> cleaned, saved |-> FALSE, e |-> e,
                  grants |-> res.grants]
            ELSE [status |-> 200, error |-> "ok", saved |-> TRUE,
                  e |-> with_department(res.e), grants |-> res.grants]

(***************************************************************************)
(* Actions.  A request is handled as one step: get_object, the transition, *)
(* save and the response.                                                  *)
(***************************************************************************)
Idle == [pc |-> "idle"]

Init ==
    /\ expenses = <<>>
    /\ perms = {}
    /\ receipts = <<>>
    /\ today = 0
    /\ last = Response("none", NULL, 0, 0, "ok")
    /\ workers = [w \in 1..MaxWorkers |-> Idle]
    /\ users = users_data

\* Expense._set_initial_permissions: the grants to the owner
_set_initial_permissions(e, id) ==
    {<<e.employee, "view_expense", id>>, <<e.employee, "change_expense", id>>}

\* self._state.adding as Expense.save reads it, after super().save(): the
\* framework clears the flag once the row is written
adding_after_save == FALSE

\* ExpenseViewSet.create with ExpenseCreateSerializer; Expense.save inserts the
\* row and then tests _state.adding.
Create(cap, user, amount, category, vendor, date, department, description) ==
    /\ Len(expenses) < cap
    /\ amount > 0
    /\ Len(description) >= 10
    /\ date >= today - MAX_EXPENSE_AGE_DAYS
    /\ date <= today
    /\ LET e == with_department(NewExpense(user, amount, category, vendor, date,
                                           department, description, today))
       IN /\ clean(e, today) = "ok"
          /\ expenses' = Append(expenses, e)
          /\ receipts' = Append(receipts, 0)
          /\ perms' = perms \cup (IF adding_after_save
                                  THEN _set_initial_permissions(e, Len(expenses) + 1)
                                  ELSE {})
          /\ last' = Response("create", user, Len(expenses) + 1, 201, "ok")
    /\ UNCHANGED <<today, workers, users>>

\* ReceiptViewSet.perform_create
AddReceipt(user, id) ==
    /\ id \in Ids
    /\ receipts[id] < MaxReceipts
    /\ IF expenses[id].employee # user \/ expenses[id].state # "draft"
       THEN /\ last' = Response("add_receipt", user, id, 500, "PermissionError")
            /\ UNCHANGED receipts
       ELSE /\ last' = Response("add_receipt", user, id, 201, "ok")
            /\ receipts' = [receipts EXCEPT ![id] = @ + 1]
    /\ UNCHANGED <<expenses, perms, today, workers, users>>

\* ReceiptViewSet.destroy: the receipts of the expenses the user can see are
\* in the queryset, and the one addressed is deleted
DeleteReceipt(user, id) ==
    /\ id \in Ids
    /\ receipts[id] > 0
    /\ IF id \notin get_queryset(user, expenses)
       THEN /\ last' = Response("delete_receipt", user, id, 404, "Not found")
            /\ UNCHANGED receipts
       ELSE /\ last' = Response("delete_receipt", user, id, 204, "ok")
            /\ receipts' = [receipts EXCEPT ![id] = @ - 1]
    /\ UNCHANGED <<expenses, perms, today, workers, users>>

\* time passes
Tick ==
    /\ today + ClockStep <= MaxTicks * ClockStep
    /\ today' = today + ClockStep
    /\ last' = Response("tick", NULL, 0, 0, "ok")
    /\ UNCHANGED <<expenses, perms, receipts, workers, users>>

\* update_profile_view with PATCH: UserSerializer sets the one field sent on
\* request.user and saves the row
UpdateProfile(user, field, value) ==
    /\ users' = [users EXCEPT ![user] = User_save([instance(@) EXCEPT ![field] = value])]
    /\ last' = [op |-> "update_profile", actor |-> user, id |-> 0, status |-> 200,
                error |-> "ok", field |-> field, value |-> value]
    /\ UNCHANGED <<expenses, perms, receipts, today, workers>>

\* ExpenseDetailSerializer.Meta.read_only_fields with state left out
read_only_fields_without_state ==
    {"employee", "manager", "finance_user", "compliance_user",
     "submitted_at", "approved_at", "approved_by", "processed_at", "processed_by",
     "rejected_at", "flagged_at", "flagged_by", "payment_details", "created_at"}

\* ExpenseDetailSerializer.Meta.read_only_fields: the fields of the row that a
\* PUT or PATCH does not write
read_only_fields ==
    {"employee", "state", "manager", "finance_user", "compliance_user",
     "submitted_at", "approved_at", "approved_by", "processed_at", "processed_by",
     "rejected_at", "flagged_at", "flagged_by", "payment_details", "created_at"}

UpdateResponse(user, id, status, error, field, value) ==
    [op |-> "update", actor |-> user, id |-> id, status |-> status, error |-> error,
     field |-> field, value |-> value]

\* ExpenseViewSet.partial_update with ExpenseDetailSerializer: the one field
\* sent is set on the instance, unless it is read-only, and Expense.save runs.
\* The ValidationError of clean is Django's, which the framework does not
\* turn into a response.
Update(user, id, field, value) ==
    /\ id \in Ids
    /\ IF id \notin get_queryset(user, expenses)
       THEN /\ last' = UpdateResponse(user, id, 404, "Not found", field, value)
            /\ UNCHANGED expenses
       ELSE LET validated == IF field \in read_only_fields THEN expenses[id]
                             ELSE [expenses[id] EXCEPT ![field] = value]
                e == with_department(validated)
            IN IF clean(e, today) # "ok"
               THEN /\ last' = UpdateResponse(user, id, 500, clean(e, today), field, value)
                    /\ UNCHANGED expenses
               ELSE /\ last' = UpdateResponse(user, id, 200, "ok", field, value)
                    /\ expenses' = [expenses EXCEPT ![id] = e]
    /\ UNCHANGED <<perms, receipts, today, workers, users>>

\* the effect of a handled request on the database and the response
Commit(op, user, id, out) ==
    /\ expenses' = IF out.saved THEN [expenses EXCEPT ![id] = out.e] ELSE expenses
    /\ perms' = perms \cup out.grants
    /\ last' = Response(op, user, id, out.status, out.error)
    /\ UNCHANGED <<receipts, today>>

Request(op, user, id, reason) ==
    /\ id \in Ids
    /\ IF id \notin get_queryset(user, expenses)
       THEN /\ last' = Response(op, user, id, 404, "Not found")
            /\ UNCHANGED <<expenses, perms, receipts, today>>
       ELSE Commit(op, user, id,
                   Handle(op, expenses[id], id, user, reason, expenses, receipts[id], today))
    /\ UNCHANGED <<workers, users>>

\* A handler up to and including self.get_object(): the row is read into the
\* handler's own instance.  "during" is the set of handlers in flight then.
Begin(w, op, user, id, reason) ==
    /\ workers[w].pc = "idle"
    /\ id \in Ids
    /\ IF id \notin get_queryset(user, expenses)
       THEN /\ workers' = [workers EXCEPT ![w] =
                             [pc |-> "done", op |-> op, actor |-> user, id |-> id,
                              reason |-> reason, e |-> expenses[id], during |-> {},
                              status |-> 404, error |-> "Not found"]]
            /\ last' = Response(op, user, id, 404, "Not found")
       ELSE /\ workers' = [workers EXCEPT ![w] =
                             [pc |-> "loaded", op |-> op, actor |-> user, id |-> id,
                              reason |-> reason, e |-> expenses[id],
                              during |-> {v \in DOMAIN workers : workers[v].pc = "loaded"},
                              status |-> 0, error |-> "ok"]]
            /\ UNCHANGED last
    /\ UNCHANGED <<expenses, perms, receipts, today, users>>

\* The rest of the handler: the transition runs on the handler's instance and
\* expense.save() writes every field of that instance to the row.
Finish(w) ==
    /\ workers[w].pc = "loaded"
    /\ LET r == workers[w]
           out == Handle(r.op, r.e, r.id, r.actor, r.reason, expenses, receipts[r.id], today)
       IN /\ Commit(r.op, r.actor, r.id, out)
          /\ workers' = [workers EXCEPT ![w] =
                           [r EXCEPT !.pc = "done", !.status = out.status,
                                     !.error = out.error]]
    /\ UNCHANGED users

(***************************************************************************)
(* Specifications.  Each next-state relation is built from the same        *)
(* actions, for a choice of the users who create expenses, the amounts and *)
(* categories created, the users who send requests, the transitions they   *)
(* request and the reasons they give.                                      *)
(***************************************************************************)
Descriptions == {"client visit in Berlin"}

Creates(cap, creators, amounts, categories, ages) ==
    \E user \in creators, amount \in amounts, category \in categories,
       age \in ages, description \in Descriptions :
       Create(cap, user, amount, category, "ACME", today - age, "", description)

AddReceipts(actors) ==
    \E user \in actors, id \in 1..MaxExpenses : AddReceipt(user, id)

Requests(ops, actors, reasons) ==
    \E op \in ops, user \in actors, id \in 1..MaxExpenses :
       \E reason \in (IF op \in WithReason THEN reasons ELSE {Unset}) :
          Request(op, user, id, reason)

\* the life cycle of expenses that need no receipt
Next ==
    \/ Creates(LifeCycleExpenses, {"emp"}, {2000}, {"TRAVEL"}, {0})
    \/ Requests(Transitions, {"emp", "mgr", "fin", "comp", "vp"},
                {At(""), At("suspected fraud")})

Spec == Init /\ [][Next]_vars

(***************************************************************************)
(* C1.  The state of an expense changes only by a successful request for   *)
(* one of the seven transitions, from a source state of that transition to *)
(* its target state, along the edges of the table below; a request for a   *)
(* transition from a state that is no source of it does not succeed and    *)
(* leaves the expense as it was.                                           *)
(***************************************************************************)
EdgeTable ==
    {<<"submit", "draft", "submitted">>,
     <<"approve", "submitted", "approved">>,
     <<"reject", "submitted", "rejected">>,
     <<"reject", "compliance_hold", "rejected">>,
     <<"withdraw", "submitted", "draft">>,
     <<"process_payment", "approved", "paid">>}
    \cup {<<"flag_suspicious", st, "compliance_hold">> : st \in ExpenseState}
    \cup {<<"executive_override", st, "approved">> : st \in ExpenseState}

C1_OnlyTableEdges ==
    [][\A id \in Ids :
          /\ expenses'[id].state # expenses[id].state =>
                /\ last'.id = id
                /\ last'.status = 200
                /\ <<last'.op, expenses[id].state, expenses'[id].state>> \in EdgeTable
          /\ (last'.op \in Transitions /\ last'.id = id
              /\ \A st \in ExpenseState : <<last'.op, expenses[id].state, st>> \notin EdgeTable)
             => (last'.status # 200 /\ expenses' = expenses)
          /\ (last'.op \in Transitions /\ last'.id = id /\ last'.status = 200)
             => <<last'.op, expenses[id].state, expenses'[id].state>> \in EdgeTable]_vars

\* a withdraw of an approved expense by its owner was refused
C1_Witness ==
    /\ last.op = "withdraw"
    /\ last.status = 500
    /\ last.error = "TransitionNotAllowed"
    /\ last.actor = expenses[last.id].employee
    /\ expenses[last.id].state = "approved"

(***************************************************************************)
(* C4, as claimed.  paid and rejected are terminal: no transition request  *)
(* succeeds on a paid or rejected expense, and its state never changes.    *)
(***************************************************************************)
Terminal == {"paid", "rejected"}

C4_TerminalStates ==
    [][\A id \in Ids :
          expenses[id].state \in Terminal =>
             /\ expenses'[id].state = expenses[id].state
             /\ ~(last'.op \in Transitions /\ last'.id = id /\ last'.status = 200)]_vars

(***************************************************************************)
(* C4, amended.  On a paid or rejected expense no submit, approve, reject, *)
(* withdraw or process_payment succeeds; its state changes only by a       *)
(* successful flag_suspicious (to compliance_hold) or executive_override   *)
(* (to approved).                                                          *)
(***************************************************************************)
C4_TerminalButFlagAndOverride ==
    [][\A id \in Ids :
          expenses[id].state \in Terminal =>
             /\ (last'.op \in Transitions /\ last'.id = id /\ last'.status = 200)
                => last'.op \in {"flag_suspicious", "executive_override"}
             /\ expenses'[id].state # expenses[id].state
                => /\ last'.id = id /\ last'.status = 200
                   /\ \/ last'.op = "flag_suspicious" /\ expenses'[id].state = "compliance_hold"
                      \/ last'.op = "executive_override" /\ expenses'[id].state = "approved"]_vars

\* a finance user asked to pay a paid expense again and was refused
C4_Witness ==
    /\ last.op = "process_payment"
    /\ last.status # 200
    /\ can_process_payments(last.actor)
    /\ expenses[last.id].state = "paid"

(***************************************************************************)
(* C5.  No expense is paid twice: process_payment never succeeds on an     *)
(* expense that already records a payment (processed_at, payment_details). *)
(***************************************************************************)
C5_NoSecondPayment ==
    [][\A id \in Ids :
          (last'.op = "process_payment" /\ last'.id = id /\ last'.status = 200)
          => (expenses[id].processed_at = Unset /\ expenses[id].payment_details = Unset)]_vars

(***************************************************************************)
(* Submission and withdrawal of expenses of an employee and of a manager,  *)
(* with and without a receipt, around the receipt threshold.               *)
(***************************************************************************)
SubmitNext ==
    \/ Creates(LifeCycleExpenses, {"emp", "mgr"}, {2500, 2501, 3000}, {"TRAVEL"}, {0})
    \/ AddReceipts({"emp", "mgr"})
    \/ Requests({"submit", "withdraw"}, {"emp", "mgr", "fin", "comp", "vp"}, {Unset})

SubmitSpec == Init /\ [][SubmitNext]_vars

(***************************************************************************)
(* Submission against the monthly limit while time passes: expenses that   *)
(* are at the age limit when created, of amounts that add up to the        *)
(* employee's monthly limit.                                               *)
(***************************************************************************)
MonthlyNext ==
    \/ Creates(MaxExpenses, {"emp"}, {500, 1000, 199500}, {"TRAVEL"},
               {0, MAX_EXPENSE_AGE_DAYS})
    \/ AddReceipts({"emp"})
    \/ Tick
    \/ Requests({"submit", "withdraw"}, {"emp", "mgr"}, {Unset})

MonthlySpec == Init /\ [][MonthlyNext]_vars

(***************************************************************************)
(* C2.  A transition request that fails leaves the persisted expenses and  *)
(* the object permissions exactly as they were.                            *)
(***************************************************************************)
C2_FailedRequestChangesNothing ==
    [][(last'.op \in Transitions /\ last'.status # 200)
       => (expenses' = expenses /\ perms' = perms /\ receipts' = receipts)]_vars

(***************************************************************************)
(* C8.  submit succeeds only for the expense's own employee on a draft     *)
(* expense; a submit of a draft by anyone else is denied and the expense   *)
(* stays as it was; the owner is not denied for their role, whatever it is.*)
(***************************************************************************)
C8_SubmitByOwnerOfDraft ==
    [][\A id \in Ids :
          (last'.op = "submit" /\ last'.id = id) =>
             /\ last'.status = 200
                => /\ last'.actor = expenses[id].employee
                   /\ expenses[id].state = "draft"
                   /\ expenses'[id].state = "submitted"
             /\ (last'.actor # expenses[id].employee /\ expenses[id].state = "draft")
                => (last'.status # 200 /\ expenses'[id] = expenses[id])
             /\ (last'.actor = expenses[id].employee /\ expenses[id].state = "draft")
                => last'.error \notin {"Only the expense owner can submit", "Not found",
                                       "TransitionNotAllowed", "Permission denied"}]_vars

\* a vp was denied the submit of a manager's draft, which the manager had
\* submitted (the vp, the owner's manager, was granted approve_expense) and
\* withdrawn before
C8_Witness ==
    /\ last.op = "submit"
    /\ last.status = 400
    /\ last.error = "Only the expense owner can submit"
    /\ User[last.actor].role = "vp"
    /\ expenses[last.id].state = "draft"
    /\ User[expenses[last.id].employee].role = "manager"
    /\ <<last.actor, "approve_expense", last.id>> \in perms

(***************************************************************************)
(* C9.  A submit of an expense over 25.00 that has no receipt fails (with  *)
(* the missing-receipt error when the owner submits a draft) and leaves    *)
(* the state alone; an expense of at most 25.00, or with a receipt, never  *)
(* fails with that error; the owner's submit of a draft of 30.00 with one  *)
(* receipt, the employee's only expense, succeeds.                         *)
(***************************************************************************)
C9_ReceiptRule ==
    [][\A id \in Ids :
          (last'.op = "submit" /\ last'.id = id) =>
             /\ (expenses[id].amount > 2500 /\ receipts[id] = 0)
                => /\ last'.status # 200
                   /\ expenses'[id].state = expenses[id].state
                   /\ (last'.actor = expenses[id].employee /\ expenses[id].state = "draft")
                      => last'.error = "Receipts required for amounts over $25"
             /\ (expenses[id].amount <= 2500 \/ receipts[id] >= 1)
                => last'.error # "Receipts required for amounts over $25"
             /\ (/\ expenses[id].amount = 3000 /\ receipts[id] = 1
                 /\ last'.actor = expenses[id].employee /\ expenses[id].state = "draft"
                 /\ \A j \in Ids \ {id} : expenses[j].employee # expenses[id].employee)
                => (last'.status = 200 /\ expenses'[id].state = "submitted")]_vars

\* the owner's submit of a draft of 25.01 without a receipt was refused
C9_Witness ==
    /\ last.op = "submit"
    /\ last.status = 400
    /\ last.error = "Receipts required for amounts over $25"
    /\ expenses[last.id].amount = 2501
    /\ receipts[last.id] = 0
    /\ expenses[last.id].state = "draft"

(***************************************************************************)
(* C10.  When the owner submits a draft that passes the receipt rule, the  *)
(* monthly-limit rule fails exactly when S + amount exceeds the employee's *)
(* monthly limit, S being the total of the employee's other expenses       *)
(* created in the current month.                                           *)
(***************************************************************************)
RECURSIVE C10_OthersThisMonth(_, _)
C10_OthersThisMonth(k, id) ==
    IF k = 0 THEN 0
    ELSE C10_OthersThisMonth(k - 1, id)
         + (IF /\ k # id
               /\ expenses[k].employee = expenses[id].employee
               /\ expenses[k].created_at >= (today \div DaysPerMonth) * DaysPerMonth
            THEN expenses[k].amount ELSE 0)

C10_MonthlyLimitCountsOnce ==
    [][\A id \in Ids :
          (/\ last'.op = "submit" /\ last'.id = id
           /\ last'.actor = expenses[id].employee /\ expenses[id].state = "draft"
           /\ (expenses[id].amount <= 2500 \/ receipts[id] >= 1))
          => (last'.error = "Monthly submission limit exceeded"
              <=> C10_OthersThisMonth(Len(expenses), id) + expenses[id].amount
                     > User[expenses[id].employee].monthly_expense_limit)]_vars

(***************************************************************************)
(* Approval: expenses of "lead" (whose manager is mgr) at the approval     *)
(* limits of a manager and of a vp, and of "temp" (whose manager is mgrX). *)
(***************************************************************************)
ApproveNext ==
    \/ Creates(LifeCycleExpenses, {"lead"}, {500000, 500001, 5000000, 5000001}, {"TRAVEL"}, {0})
    \/ Creates(LifeCycleExpenses, {"temp"}, {3000}, {"TRAVEL"}, {0})
    \/ AddReceipts({"lead", "temp"})
    \/ Requests({"submit"}, {"lead", "temp"}, {Unset})
    \/ Requests({"approve"}, {"lead", "mgr", "mgr2", "mgrX", "fin", "comp", "vp", "vpX", "cfo"},
                {Unset})

ApproveSpec == Init /\ [][ApproveNext]_vars

(***************************************************************************)
(* The life cycle of an expense of "temp", whose manager is not an active  *)
(* approver, with requests of users whose is_active_approver flag is off.  *)
(***************************************************************************)
Privileged == {"approve", "reject", "process_payment", "flag_suspicious", "executive_override"}

InactiveNext ==
    \/ Creates(LifeCycleExpenses, {"temp"}, {2000}, {"TRAVEL"}, {0})
    \/ Requests(Transitions, {"temp", "fin", "comp", "vp"}, {At("suspected fraud")})
    \/ Requests(Privileged, {"mgrX", "finX", "compX", "vpX", "cfoX"}, {At("suspected fraud")})

InactiveSpec == Init /\ [][InactiveNext]_vars

(***************************************************************************)
(* C6.  An approve request on a submitted expense passes authorization     *)
(* exactly when the actor's role is manager, vp or cfo, the actor is an    *)
(* active approver, a manager-role actor is the expense's assigned manager *)
(* and the actor's approval limit is at least the amount.                  *)
(***************************************************************************)
C6_Denials ==
    {"Not found", "TransitionNotAllowed", "AttributeError", "User cannot approve expenses",
     "Manager can only approve direct reports", "Amount exceeds approval limit"}

C6_ApproveAuthorization ==
    [][\A id \in Ids :
          (last'.op = "approve" /\ last'.id = id /\ expenses[id].state = "submitted")
          => (last'.error \notin C6_Denials
              <=> /\ User[last'.actor].role \in {"manager", "vp", "cfo"}
                  /\ User[last'.actor].is_active_approver
                  /\ (User[last'.actor].role = "manager" => expenses[id].manager = last'.actor)
                  /\ User[last'.actor].approval_limit >= expenses[id].amount)]_vars

\* a manager with limit 5000.00 approved an expense of exactly 5000.00
C6_Witness ==
    /\ last.op = "approve"
    /\ last.status = 200
    /\ User[last.actor].role = "manager"
    /\ User[last.actor].approval_limit = 500000
    /\ expenses[last.id].amount = 500000
    /\ expenses[last.id].state = "approved"

(***************************************************************************)
(* C7.  A user whose is_active_approver flag is off never succeeds at      *)
(* approve, reject, process_payment, flag_suspicious or                    *)
(* executive_override, and is never recorded as the approver, the payer or *)
(* the flagger of an expense.                                              *)
(***************************************************************************)
C7_InactiveApproverDenied ==
    /\ (last.op \in {"approve", "reject", "process_payment", "flag_suspicious",
                     "executive_override"}
        /\ last.actor \in Users /\ ~User[last.actor].is_active_approver)
       => last.status # 200
    /\ \A id \in Ids :
          \A who \in {expenses[id].approved_by, expenses[id].processed_by,
                      expenses[id].flagged_by} :
             who # NULL => User[who].is_active_approver

\* the assigned manager of a submitted expense, not an active approver, was
\* denied its approval
C7_Witness ==
    /\ last.op = "approve"
    /\ last.status = 400
    /\ last.error = "User cannot approve expenses"
    /\ ~User[last.actor].is_active_approver
    /\ expenses[last.id].manager = last.actor
    /\ expenses[last.id].state = "submitted"

(***************************************************************************)
(* Handlers that overlap: each reads the row, runs its transition on what  *)
(* it read and saves, and another handler may run in between.              *)
(***************************************************************************)
Begins(ops, actors) ==
    \E w \in 1..MaxWorkers, op \in ops, user \in actors, id \in 1..MaxExpenses :
       Begin(w, op, user, id, Unset)

Finishes == \E w \in 1..MaxWorkers : Finish(w)

ConcNext ==
    \/ Creates(LifeCycleExpenses, {"emp"}, {2000}, {"TRAVEL"}, {0})
    \/ Requests({"submit"}, {"emp"}, {Unset})
    \/ Begins({"approve", "withdraw"}, {"emp", "mgr"})
    \/ Finishes

ConcSpec == Init /\ [][ConcNext]_vars

(***************************************************************************)
(* C3.  When an approve by the assigned manager and a withdraw by the      *)
(* owner of the same submitted expense overlap (each read the expense as   *)
(* submitted, one of them while the other was in flight), exactly one of   *)
(* the two succeeds.                                                       *)
(***************************************************************************)
C3_ExactlyOneSucceeds ==
    \A a, b \in DOMAIN workers :
       (/\ workers[a].pc = "done" /\ workers[b].pc = "done"
        /\ workers[a].op = "approve" /\ workers[b].op = "withdraw"
        /\ workers[a].id = workers[b].id
        /\ workers[a].actor = workers[a].e.manager
        /\ workers[b].actor = workers[b].e.employee
        /\ workers[a].e.state = "submitted" /\ workers[b].e.state = "submitted"
        /\ (a \in workers[b].during \/ b \in workers[a].during))
       => (workers[a].status = 200) # (workers[b].status = 200)

(***************************************************************************)
(* Entertainment expenses of "lead" (whose manager is mgr) at the 200.00   *)
(* threshold, while time passes.                                           *)
(***************************************************************************)
EntertainmentNext ==
    \/ Creates(LifeCycleExpenses, {"lead"}, {20000, 20001}, {"ENTERTAINMENT"},
               {0, MAX_EXPENSE_AGE_DAYS})
    \/ AddReceipts({"lead"})
    \/ Tick
    \/ Requests({"submit"}, {"lead"}, {Unset})
    \/ Requests({"approve"}, {"mgr", "vp", "cfo"}, {Unset})

EntertainmentSpec == Init /\ [][EntertainmentNext]_vars

C12_WithdrawEffect ==
    [][\A id \in Ids :
          (last'.op = "withdraw" /\ last'.id = id)
          => /\ expenses[id].state = "draft"
                => (last'.status # 200 /\ expenses' = expenses)
             /\ (expenses[id].state = "submitted" /\ last'.actor = expenses[id].employee)
                => /\ last'.status = 200
                   /\ expenses' = [expenses EXCEPT ![id] =
                                     [@ EXCEPT !.state = "draft", !.manager = NULL,
                                               !.finance_user = NULL,
                                               !.compliance_user = NULL,
                                               !.submitted_at = Unset]]
             /\ last'.actor # expenses[id].employee
                => (last'.status # 200 /\ expenses' = expenses)]_vars

(***************************************************************************)
(* The life cycle with requests that carry a reason, an empty reason, or   *)
(* no reason at all.                                                       *)
(***************************************************************************)
ReasonNext ==
    \/ Creates(LifeCycleExpenses, {"emp"}, {2000}, {"TRAVEL"}, {0})
    \/ Requests(Transitions, {"emp", "mgr", "comp", "vp"},
                {Unset, At(""), At("suspected fraud")})

ReasonSpec == Init /\ [][ReasonNext]_vars

(***************************************************************************)
(* C13.  Whenever a reject, flag_suspicious or executive_override request  *)
(* succeeds, the reason it stores (rejection_reason, flag_reason,          *)
(* override_reason) is not empty: a request with an empty reason or with   *)
(* no reason never succeeds.                                               *)
(***************************************************************************)
C13_ReasonRequired ==
    [][\A id \in Ids :
          (last'.id = id /\ last'.status = 200)
          => /\ last'.op = "reject" => expenses'[id].rejection_reason # ""
             /\ last'.op = "flag_suspicious" => expenses'[id].flag_reason # ""
             /\ last'.op = "executive_override" => expenses'[id].override_reason # ""]_vars

(***************************************************************************)
(* The life cycle of an expense while time passes: the expense is dated    *)
(* today or 90 days back, and the clock may advance between requests.      *)
(***************************************************************************)
AgingNext ==
    \/ Creates(LifeCycleExpenses, {"emp"}, {2000}, {"TRAVEL"}, {0, MAX_EXPENSE_AGE_DAYS})
    \/ Tick
    \/ Requests(Transitions, {"emp", "mgr", "fin", "comp", "vp"}, {At("suspected fraud")})

AgingSpec == Init /\ [][AgingNext]_vars

(***************************************************************************)
(* C14.  A process_payment request succeeds exactly when the expense is    *)
(* approved and the actor has role finance and is an active approver.  On  *)
(* success the state is paid, processed_by is the actor, and processed_at  *)
(* and payment_details are set; otherwise the request fails and changes    *)
(* nothing.                                                                *)
(***************************************************************************)
C14_ProcessPayment ==
    [][\A id \in Ids :
          (last'.op = "process_payment" /\ last'.id = id)
          => IF /\ expenses[id].state = "approved"
                /\ User[last'.actor].role = "finance"
                /\ User[last'.actor].is_active_approver
             THEN /\ last'.status = 200
                  /\ expenses'[id].state = "paid"
                  /\ expenses'[id].processed_by = last'.actor
                  /\ expenses'[id].processed_at # Unset
                  /\ expenses'[id].payment_details # Unset
             ELSE /\ last'.status # 200
                  /\ expenses' = expenses]_vars

(***************************************************************************)
(* C15.  A flag_suspicious request by an active actor of role compliance   *)
(* succeeds from each of the six states, leaving the expense in            *)
(* compliance_hold with flagged_by the actor and the reason in             *)
(* flag_reason; by an actor of any other role it fails from every state.   *)
(***************************************************************************)
C15_FlagFromAnyState ==
    [][\A id \in Ids :
          (last'.op = "flag_suspicious" /\ last'.id = id)
          => IF User[last'.actor].role = "compliance" /\ User[last'.actor].is_active_approver
             THEN /\ last'.status = 200
                  /\ expenses'[id].state = "compliance_hold"
                  /\ expenses'[id].flagged_by = last'.actor
                  /\ expenses'[id].flag_reason = "suspected fraud"
             ELSE User[last'.actor].role # "compliance"
                  => (last'.status # 200 /\ expenses' = expenses)]_vars

(***************************************************************************)
(* C16.  An executive_override request by an active vp or cfo succeeds     *)
(* from each of the six states, whatever the amount, leaving the expense   *)
(* approved with approved_by the actor and the reason in override_reason;  *)
(* by an actor of any other role it fails from every state.                *)
(***************************************************************************)
C16_OverrideFromAnyState ==
    [][\A id \in Ids :
          (last'.op = "executive_override" /\ last'.id = id)
          => IF User[last'.actor].role \in {"vp", "cfo"} /\ User[last'.actor].is_active_approver
             THEN /\ last'.status = 200
                  /\ expenses'[id].state = "approved"
                  /\ expenses'[id].approved_by = last'.actor
                  /\ expenses'[id].override_reason = "suspected fraud"
             ELSE User[last'.actor].role \notin {"vp", "cfo"}
                  => (last'.status # 200 /\ expenses' = expenses)]_vars

(***************************************************************************)
(* Rejections: expenses of emp (whose manager is mgr) and of mgr (whose    *)
(* manager is vp) are submitted, flagged and rejected.                     *)
(***************************************************************************)
RejectNext ==
    \/ Creates(LifeCycleExpenses, {"emp", "mgr"}, {2000}, {"TRAVEL"}, {0})
    \/ Requests({"submit", "reject", "flag_suspicious"}, {"emp", "mgr", "mgr2", "comp", "vp"},
                {At("suspected fraud")})

RejectSpec == Init /\ [][RejectNext]_vars

(***************************************************************************)
(* C17.  Expense.reject, applied to any expense by any user, succeeds      *)
(* exactly when the state is submitted or compliance_hold and the user is  *)
(* an active approver of role manager, vp or cfo, whether or not the user  *)
(* is the expense's assigned manager; it then sets the state to rejected   *)
(* and sets rejected_at and rejection_reason.  Every reject request that   *)
(* succeeded was such a call.                                              *)
(***************************************************************************)
C17_RejectConditions ==
    /\ \A id \in Ids, u \in Users :
          LET res == reject(expenses[id], u, "suspected fraud", today)
          IN IF /\ expenses[id].state \in {"submitted", "compliance_hold"}
                /\ User[u].role \in {"manager", "vp", "cfo"}
                /\ User[u].is_active_approver
             THEN /\ res.error = "ok"
                  /\ res.e = [expenses[id] EXCEPT !.state = "rejected",
                                                  !.rejected_at = At(today),
                                                  !.rejection_reason = "suspected fraud"]
             ELSE /\ res.error # "ok"
                  /\ res.e = expenses[id]
    /\ (last.op = "reject" /\ last.status = 200)
       => /\ User[last.actor].role \in {"manager", "vp", "cfo"}
          /\ User[last.actor].is_active_approver
          /\ expenses[last.id].state = "rejected"
          /\ expenses[last.id].rejected_at # Unset
          /\ expenses[last.id].rejection_reason = "suspected fraud"

\* a manager who is not the expense's assigned manager rejected it
C17_Witness ==
    /\ last.op = "reject"
    /\ last.status = 200
    /\ User[last.actor].role = "manager"
    /\ expenses[last.id].manager # last.actor
    /\ expenses[last.id].state = "rejected"

(***************************************************************************)
(* Requests that break an authorization condition and a business rule at   *)
(* once: expenses of 5000.01 of "lead" and of 200.01 of mgr, submitted by  *)
(* others without a receipt, approved by users without the capability, the *)
(* assignment or the limit.                                                *)
(***************************************************************************)
OrderNext ==
    \/ Creates(LifeCycleExpenses, {"lead"}, {500001}, {"ENTERTAINMENT", "TRAVEL"}, {0})
    \/ Creates(LifeCycleExpenses, {"mgr"}, {20001}, {"ENTERTAINMENT"}, {0})
    \/ AddReceipts({"lead", "mgr"})
    \/ Requests({"submit"}, {"lead", "mgr", "comp", "vp"}, {Unset})
    \/ Requests({"approve"}, {"lead", "mgr", "comp", "vpX", "vp"}, {Unset})

OrderSpec == Init /\ [][OrderNext]_vars

(***************************************************************************)
(* C18.  A submit or approve request is answered with a business-rule      *)
(* violation only if it met every authorization condition of the           *)
(* transition; a request that breaks an authorization condition and a      *)
(* business rule is answered with the authorization denial (or with "Not   *)
(* found" when the actor cannot address the expense at all).               *)
(***************************************************************************)
C18_SubmitRuleErrors ==
    {"Receipts required for amounts over $25", "Monthly submission limit exceeded",
     "Vendor is currently under investigation", "Potential duplicate expense detected"}

C18_ApproveRuleErrors ==
    {"Insufficient departmental budget", "Entertainment expenses over $200 require VP approval"}

C18_AuthorizationFirst ==
    [][\A id \in Ids :
          LET a == last'.actor
              e == expenses[id]
              may_approve == /\ User[a].role \in {"manager", "vp", "cfo"}
                             /\ User[a].is_active_approver
                             /\ (User[a].role = "manager" => e.manager = a)
                             /\ User[a].approval_limit >= e.amount
          IN /\ (last'.op = "submit" /\ last'.id = id)
                => /\ last'.error \in C18_SubmitRuleErrors
                      => (a = e.employee /\ e.state = "draft")
                   /\ (e.state = "draft" /\ a # e.employee
                       /\ e.amount > 2500 /\ receipts[id] = 0)
                      => last'.error \in {"Not found", "Only the expense owner can submit"}
             /\ (last'.op = "approve" /\ last'.id = id)
                => /\ last'.error \in C18_ApproveRuleErrors
                      => (e.state = "submitted" /\ may_approve)
                   /\ (e.state = "submitted" /\ ~may_approve
                       /\ e.expense_category = "ENTERTAINMENT" /\ e.amount > 20000
                       /\ User[a].role \notin {"vp", "cfo"})
                      => last'.error \in {"Not found", "User cannot approve expenses",
                                          "Manager can only approve direct reports",
                                          "Amount exceeds approval limit"}]_vars

\* the assigned manager was refused the approval of an entertainment expense
\* above the manager's limit, with the limit as the ground
C18_Witness ==
    /\ last.op = "approve"
    /\ last.error = "Amount exceeds approval limit"
    /\ expenses[last.id].manager = last.actor
    /\ expenses[last.id].expense_category = "ENTERTAINMENT"
    /\ expenses[last.id].amount > 20000
    /\ expenses[last.id].state = "submitted"

(***************************************************************************)
(* Expenses of users who have no manager: the employee "solo" and the      *)
(* manager "head".                                                         *)
(***************************************************************************)
NoManagerNext ==
    \/ Creates(LifeCycleExpenses, {"solo", "head"}, {2000}, {"TRAVEL"}, {0})
    \/ Requests({"submit", "approve", "withdraw", "flag_suspicious", "executive_override"},
                {"solo", "head", "mgr", "comp", "vp", "cfo"}, {At("suspected fraud")})

NoManagerSpec == Init /\ [][NoManagerNext]_vars

(***************************************************************************)
(* C19.  No transition request ends in an exception that the handler does  *)
(* not turn into an error result: neither django-fsm's                     *)
(* TransitionNotAllowed nor an AttributeError.                             *)
(***************************************************************************)
C19_NoUnhandledException ==
    last.op \in {"submit", "approve", "reject", "withdraw", "process_payment",
                 "flag_suspicious", "executive_override"}
    => (last.status # 500 /\ last.error \notin {"TransitionNotAllowed", "AttributeError"})

(***************************************************************************)
(* C20.  For an expense whose employee has no manager: the owner's submit  *)
(* of the draft is not refused for the missing manager and leaves manager  *)
(* unset; no approve by an actor of role manager succeeds; and the expense *)
(* becomes approved only by a successful approve or executive_override of  *)
(* a vp or cfo.                                                            *)
(***************************************************************************)
C20_NoManagerAssigned ==
    [][\A id \in Ids :
          User[expenses[id].employee].manager = NULL
          => /\ (last'.op = "submit" /\ last'.id = id /\ expenses[id].state = "draft"
                 /\ last'.actor = expenses[id].employee)
                => /\ last'.status = 200 \/ last'.error \in C18_SubmitRuleErrors
                   /\ expenses'[id].manager = NULL
             /\ (last'.op = "approve" /\ last'.id = id
                 /\ User[last'.actor].role = "manager")
                => (last'.status # 200 /\ expenses' = expenses)
             /\ (expenses'[id].state = "approved" /\ expenses[id].state # "approved")
                => /\ last'.id = id /\ last'.status = 200
                   /\ last'.op \in {"approve", "executive_override"}
                   /\ User[last'.actor].role \in {"vp", "cfo"}]_vars

\* a manager without a manager asked to approve their own submitted expense,
\* which has no manager assigned
C20_Witness ==
    /\ last.op = "approve"
    /\ last.status # 200
    /\ User[last.actor].role = "manager"
    /\ expenses[last.id].state = "submitted"
    /\ expenses[last.id].manager = NULL
    /\ expenses[last.id].submitted_at # Unset

(***************************************************************************)
(* User populations: the finance user "fin" belongs to the department      *)
(* Finance or Accounting, and the accounts of the finance and compliance   *)
(* users are active or not (is_active).  An expense of emp is submitted,   *)
(* withdrawn and submitted again.                                          *)
(***************************************************************************)
Populations ==
    {[users_data EXCEPT !["fin"].department = d, !["fin"].is_active = f,
                        !["finX"].is_active = fx, !["comp"].is_active = c,
                        !["compX"].is_active = cx] :
        d \in {"Finance", "Accounting"}, f \in BOOLEAN, fx \in BOOLEAN,
        c \in BOOLEAN, cx \in BOOLEAN}

PopulationInit ==
    /\ expenses = <<>>
    /\ perms = {}
    /\ receipts = <<>>
    /\ today = 0
    /\ last = Response("none", NULL, 0, 0, "ok")
    /\ workers = [w \in 1..MaxWorkers |-> Idle]
    /\ users \in Populations

PopulationNext ==
    \/ Creates(LifeCycleExpenses, {"emp"}, {2000}, {"TRAVEL"}, {0})
    \/ Requests({"submit", "withdraw"}, {"emp"}, {Unset})

PopulationSpec == PopulationInit /\ [][PopulationNext]_vars

(***************************************************************************)
(* C21, as claimed.  After a successful submit, finance_user is an active  *)
(* user of role finance if there is one and unset otherwise, and           *)
(* compliance_user is an active user of role compliance if there is one    *)
(* and unset otherwise.                                                    *)
(***************************************************************************)
C21_PartiesByRole ==
    [][\A id \in Ids :
          (last'.op = "submit" /\ last'.id = id /\ last'.status = 200)
          => LET F == {u \in Users : users[u].role = "finance" /\ users[u].is_active}
                 C == {u \in Users : users[u].role = "compliance" /\ users[u].is_active}
             IN /\ IF F = {} THEN expenses'[id].finance_user = NULL
                   ELSE expenses'[id].finance_user \in F
                /\ IF C = {} THEN expenses'[id].compliance_user = NULL
                   ELSE expenses'[id].compliance_user \in C]_vars

(***************************************************************************)
(* C21, amended.  After a successful submit, finance_user is the active    *)
(* user of role finance and department Finance with the lowest id, and     *)
(* unset if there is none; compliance_user is the active user of role      *)
(* compliance with the lowest id, and unset if there is none.              *)
(***************************************************************************)
C21_PartiesByRoleAndDepartment ==
    [][\A id \in Ids :
          (last'.op = "submit" /\ last'.id = id /\ last'.status = 200)
          => LET F == {u \in Users : /\ users[u].role = "finance"
                                     /\ users[u].department = "Finance"
                                     /\ users[u].is_active}
                 C == {u \in Users : users[u].role = "compliance" /\ users[u].is_active}
                 fu == expenses'[id].finance_user
                 cu == expenses'[id].compliance_user
             IN /\ IF F = {} THEN fu = NULL
                   ELSE fu \in F /\ \A v \in F : users[fu].pk <= users[v].pk
                /\ IF C = {} THEN cu = NULL
                   ELSE cu \in C /\ \A v \in C : users[cu].pk <= users[v].pk]_vars

\* a submit assigned the second finance user while the first, active, belongs
\* to another department
C21_Witness ==
    /\ last.op = "submit"
    /\ last.status = 200
    /\ users["fin"].is_active
    /\ users["fin"].department # "Finance"
    /\ expenses[last.id].finance_user = "finX"
    /\ expenses[last.id].compliance_user # NULL

(***************************************************************************)
(* Profile updates: "lead" and the manager mgr change fields of their own  *)
(* rows while an expense of 5000.01 of "lead" is submitted and approved.   *)
(***************************************************************************)
ProfilePatches ==
    {<<"approval_limit", Unset>>, <<"approval_limit", At(0)>>,
     <<"approval_limit", At(600000)>>, <<"monthly_expense_limit", At(0)>>,
     <<"role", "manager">>, <<"department", "Sales">>}

UpdateProfiles(actors) ==
    \E user \in actors, patch \in ProfilePatches : UpdateProfile(user, patch[1], patch[2])

ProfileNext ==
    \/ Creates(LifeCycleExpenses, {"lead"}, {500001}, {"TRAVEL"}, {0})
    \/ AddReceipts({"lead"})
    \/ UpdateProfiles({"lead", "mgr"})
    \/ Requests({"submit"}, {"lead"}, {Unset})
    \/ Requests({"approve"}, {"mgr"}, {Unset})

ProfileSpec == Init /\ [][ProfileNext]_vars

(***************************************************************************)
(* C22.  No request of a user changes a user's approval_limit or           *)
(* monthly_expense_limit from the value the user was created with, and no  *)
(* expense is approved by a user whose limit at creation was below the     *)
(* amount.                                                                 *)
(***************************************************************************)
C22_LimitsNotRenegotiated ==
    /\ \A u \in Users :
          /\ users[u].approval_limit = users_data[u].approval_limit
          /\ users[u].monthly_expense_limit = users_data[u].monthly_expense_limit
    /\ \A id \in Ids :
          (expenses[id].state = "approved" /\ expenses[id].approved_by # NULL)
          => users_data[expenses[id].approved_by].approval_limit >= expenses[id].amount

(***************************************************************************)
(* C29.  A save of a user stores the role's default for a limit only when  *)
(* the limit is unset: a limit sent with a value, 0 included, is stored as *)
(* sent, an unset limit becomes the role's default, and a save that sends  *)
(* no limit leaves both stored limits as they were.                        *)
(***************************************************************************)
C29_SaveKeepsExplicitLimits ==
    [][last'.op = "update_profile"
       => LET u == last'.actor
              sent == last'.value
          IN /\ last'.field = "approval_limit"
                => users'[u].approval_limit =
                      IF sent = Unset THEN get_default_approval_limit(users[u].role)
                      ELSE sent[1]
             /\ last'.field = "monthly_expense_limit"
                => users'[u].monthly_expense_limit =
                      IF sent = Unset THEN get_default_monthly_limit(users[u].role)
                      ELSE sent[1]
             /\ last'.field # "approval_limit"
                => users'[u].approval_limit = users[u].approval_limit
             /\ last'.field # "monthly_expense_limit"
                => users'[u].monthly_expense_limit = users[u].monthly_expense_limit]_vars

(***************************************************************************)
(* Edits before submission: the owner changes the date, the amount or the  *)
(* description of the expense, time passes, and the expense is submitted   *)
(* and withdrawn.                                                          *)
(***************************************************************************)
DraftPatches ==
    {<<"expense_date", today + 1>>, <<"expense_date", today - MAX_EXPENSE_AGE_DAYS - 1>>,
     <<"amount", 0>>, <<"amount", 2500>>, <<"description", "lunch">>}

Updates(actors, patches) ==
    \E user \in actors, id \in 1..MaxExpenses, patch \in patches :
       Update(user, id, patch[1], patch[2])

DraftNext ==
    \/ Creates(LifeCycleExpenses, {"emp"}, {2000}, {"TRAVEL"}, {0, 45, MAX_EXPENSE_AGE_DAYS})
    \/ Updates({"emp"}, DraftPatches)
    \/ Tick
    \/ Requests({"submit", "withdraw"}, {"emp"}, {Unset})

DraftSpec == Init /\ [][DraftNext]_vars

(***************************************************************************)
(* C23.  No submit succeeds for an expense whose expense_date is after the *)
(* day of the request or more than 90 days before it, whose amount is not  *)
(* positive, or whose description has fewer than 10 characters.            *)
(***************************************************************************)
C23_SubmitChecksFields ==
    [][(last'.op = "submit" /\ last'.status = 200)
       => LET e == expenses[last'.id]
          IN /\ e.expense_date <= today
             /\ e.expense_date >= today - 90
             /\ e.amount > 0
             /\ Len(e.description) >= 10]_vars

(***************************************************************************)
(* Two expenses of emp and "lead" that agree or differ in amount and date, *)
(* submitted, withdrawn, rejected and submitted again.                     *)
(***************************************************************************)
DuplicateNext ==
    \/ Creates(MaxExpenses, {"emp", "lead"}, {2000, 2100}, {"TRAVEL"}, {0, 1})
    \/ Requests({"submit", "withdraw"}, {"emp", "lead"}, {Unset})
    \/ Requests({"reject"}, {"mgr"}, {At("not a business expense")})

DuplicateSpec == Init /\ [][DuplicateNext]_vars

(***************************************************************************)
(* C24.  A submit by the owner of a draft is refused as a potential        *)
(* duplicate only if another expense (another id, in whatever state) has   *)
(* the same employee, vendor_id, amount and expense_date; when there is    *)
(* such an expense the submit is refused and the expense stays a draft,    *)
(* and as a duplicate unless an earlier submission rule refuses it.  An    *)
(* expense is not a duplicate of itself: withdrawn, it can be submitted    *)
(* again.                                                                  *)
(***************************************************************************)
C24_Twin(id) ==
    \E j \in Ids \ {id} :
        /\ expenses[j].employee = expenses[id].employee
        /\ expenses[j].vendor_id = expenses[id].vendor_id
        /\ expenses[j].amount = expenses[id].amount
        /\ expenses[j].expense_date = expenses[id].expense_date

C24_DuplicateRule ==
    [][(/\ last'.op = "submit"
        /\ last'.id \in Ids
        /\ last'.actor = expenses[last'.id].employee
        /\ expenses[last'.id].state = "draft")
       => /\ last'.error = "Potential duplicate expense detected" => C24_Twin(last'.id)
          /\ C24_Twin(last'.id)
             => /\ last'.status = 400
                /\ expenses'[last'.id].state = "draft"
                /\ last'.error \in {"Potential duplicate expense detected",
                                    "Receipts required for amounts over $25",
                                    "Monthly submission limit exceeded",
                                    "Vendor is currently under investigation"}
          /\ (~C24_Twin(last'.id) /\ expenses[last'.id].submitted_at # Unset)
             => last'.error # "Potential duplicate expense detected"]_vars

\* a submit was refused as a duplicate of an expense that was rejected
C24_Witness ==
    /\ last.op = "submit"
    /\ last.error = "Potential duplicate expense detected"
    /\ \E j \in Ids \ {last.id} : expenses[j].state = "rejected"

(***************************************************************************)
(* An expense of "lead" booked on each department, at the ceiling of the   *)
(* department and one cent above it, and further expenses booked on HR,    *)
(* approved by vp and cfo.                                                 *)
(***************************************************************************)
BudgetCases ==
    {<<"Engineering", 7500000, 0>>, <<"Engineering", 7500001, 0>>,
     <<"Marketing", 4500000, 0>>, <<"Marketing", 4500001, 0>>,
     <<"Sales", 6000000, 0>>, <<"Sales", 6000001, 0>>,
     <<"Finance", 2500000, 0>>, <<"Finance", 2500001, 0>>,
     <<"HR", 1500000, 0>>, <<"HR", 1500001, 0>>, <<"HR", 1500000, 1>>,
     <<"Legal", 3000000, 0>>, <<"Legal", 3000001, 0>>}

BudgetNext ==
    \/ \E case \in BudgetCases, description \in Descriptions :
          /\ (expenses = <<>> \/ case[1] = "HR")
          /\ Create(MaxExpenses, "lead", case[2], "TRAVEL", "ACME", today - case[3],
                    case[1], description)
    \/ AddReceipts({"lead"})
    \/ Requests({"submit"}, {"lead"}, {Unset})
    \/ Requests({"approve"}, {"vp", "cfo"}, {Unset})

BudgetSpec == Init /\ [][BudgetNext]_vars

(***************************************************************************)
(* C25.  An approve that reaches the budget rule (a submitted expense, an  *)
(* active vp or cfo whose approval limit covers the amount) is refused for *)
(* insufficient budget exactly when the amount is above the ceiling of the *)
(* expense's department: 75000 for Engineering, 45000 for Marketing, 60000 *)
(* for Sales, 25000 for Finance, 15000 for HR and 30000 for any other.     *)
(* Expenses approved before do not change the outcome.                     *)
(***************************************************************************)
C25_Ceiling(department) ==
    CASE department = "Engineering" -> 75000 * 100
      [] department = "Marketing" -> 45000 * 100
      [] department = "Sales" -> 60000 * 100
      [] department = "Finance" -> 25000 * 100
      [] department = "HR" -> 15000 * 100
      [] OTHER -> 30000 * 100

C25_BudgetRule ==
    [][(/\ last'.op = "approve"
        /\ last'.id \in Ids
        /\ expenses[last'.id].state = "submitted"
        /\ users[last'.actor].role \in {"vp", "cfo"}
        /\ users[last'.actor].is_active_approver
        /\ users[last'.actor].approval_limit >= expenses[last'.id].amount)
       => LET e == expenses[last'.id]
          IN last'.error = "Insufficient departmental budget"
                <=> e.amount > C25_Ceiling(e.department)]_vars

\* an expense was approved although the approved expenses of its department
\* add up to more than the ceiling
C25_Witness ==
    /\ last.op = "approve"
    /\ last.status = 200
    /\ \E j \in Ids \ {last.id} :
          /\ expenses[j].state = "approved"
          /\ expenses[j].department = expenses[last.id].department
          /\ expenses[j].amount + expenses[last.id].amount > C25_Ceiling(expenses[j].department)

(***************************************************************************)
(* The life cycle with edits: the owner, the manager and the vp send       *)
(* PATCH requests, some of them naming the state, in every state.          *)
(***************************************************************************)
StatePatches ==
    {<<"state", "approved">>, <<"state", "draft">>, <<"state", "paid">>,
     <<"amount", 2500>>, <<"description", "lunch">>}

CrudNext ==
    \/ Creates(LifeCycleExpenses, {"emp"}, {2000}, {"TRAVEL"}, {0})
    \/ Updates({"emp", "mgr", "vp"}, StatePatches)
    \/ Requests(Transitions, {"emp", "mgr", "fin", "comp", "vp"}, {At("suspected fraud")})

CrudSpec == Init /\ [][CrudNext]_vars

(***************************************************************************)
(* C26.  A created expense is in state draft, a create or update request   *)
(* leaves the state of every expense as it was, and the state of an        *)
(* expense changes only in a request for submit, approve, reject,          *)
(* withdraw, process_payment, flag_suspicious or executive_override.       *)
(***************************************************************************)
C26_StateOnlyByTransitions ==
    [][/\ Len(expenses') > Len(expenses) => expenses'[Len(expenses')].state = "draft"
       /\ last'.op \in {"create", "update"}
          => \A id \in Ids : expenses'[id].state = expenses[id].state
       /\ \A id \in Ids :
             expenses'[id].state # expenses[id].state
             => /\ last'.id = id
                /\ last'.op \in {"submit", "approve", "reject", "withdraw", "process_payment",
                                 "flag_suspicious", "executive_override"}]_vars

\* a PATCH naming another state was answered 200 for an approved expense
C26_Witness ==
    /\ last.op = "update"
    /\ last.status = 200
    /\ last.field = "state"
    /\ last.value = "paid"
    /\ expenses[last.id].state = "approved"

(***************************************************************************)
(* Receipts: an expense of 25.00 or 25.01 gets a receipt, is submitted,     *)
(* approved and paid, and users ask for the receipt to be deleted.         *)
(***************************************************************************)
DeleteReceipts(actors) ==
    \E user \in actors, id \in 1..MaxExpenses : DeleteReceipt(user, id)

ReceiptNext ==
    \/ Creates(LifeCycleExpenses, {"emp"}, {2500, 2501}, {"TRAVEL"}, {0})
    \/ AddReceipts({"emp", "mgr"})
    \/ DeleteReceipts({"emp", "mgr", "temp"})
    \/ Requests({"submit", "withdraw"}, {"emp"}, {Unset})
    \/ Requests({"approve"}, {"mgr"}, {Unset})
    \/ Requests({"process_payment"}, {"fin"}, {Unset})

ReceiptSpec == Init /\ [][ReceiptNext]_vars

(***************************************************************************)
(* C27.  No request reduces the number of receipts of an expense, and an   *)
(* expense over 25.00 that has been submitted keeps a receipt in every     *)
(* later state.                                                            *)
(***************************************************************************)
C27_ReceiptsKept ==
    [][\A id \in Ids :
          /\ receipts'[id] >= receipts[id]
          /\ (expenses'[id].state # "draft" /\ expenses'[id].amount > 2500)
             => receipts'[id] >= 1]_vars

(***************************************************************************)
(* C28.  For every user and expense, ExpenseApprovalPermission grants the  *)
(* approve action exactly when Expense.approve, called for that user on    *)
(* that expense, raises nothing.                                           *)
(***************************************************************************)
C28_PermissionAgreesWithApprove ==
    \A id \in Ids : \A user \in {"lead", "mgr", "mgr2", "mgrX", "fin", "comp", "vp", "vpX", "cfo"} :
        ExpenseApprovalPermission(user, expenses[id], id, expenses, receipts[id], today)
        <=> approve(expenses[id], user, today).error = "ok"

(***************************************************************************)
(* C30.  The request that creates an expense leaves its owner with the     *)
(* object permissions view_expense and change_expense on it, and no later  *)
(* request assigns these two permissions of the owner.                     *)
(***************************************************************************)
C30_OwnerGrants(id) ==
    {<<expenses[id].employee, "view_expense", id>>,
     <<expenses[id].employee, "change_expense", id>>}

C30_InitialGrantOnCreate ==
    [][/\ last'.op = "create"
          => {<<last'.actor, "view_expense", last'.id>>,
              <<last'.actor, "change_expense", last'.id>>} \subseteq perms'
       /\ \A id \in Ids : C30_OwnerGrants(id) \cap perms' = C30_OwnerGrants(id) \cap perms]_vars

C32_BusinessData(e) ==
    <<e.employee, e.amount, e.expense_category, e.currency, e.expense_date, e.vendor_id,
      e.department, e.description>>

C32_Parties(e) == <<e.manager, e.finance_user, e.compliance_user, e.submitted_at>>

C32_TransitionFrame ==
    [][(last'.status = 200 /\ last'.id \in Ids)
       => /\ last'.op \in {"submit", "approve", "reject", "process_payment",
                           "flag_suspicious", "executive_override"}
             => C32_BusinessData(expenses'[last'.id]) = C32_BusinessData(expenses[last'.id])
          /\ last'.op \in {"approve", "reject", "process_payment", "flag_suspicious",
                           "executive_override"}
             => C32_Parties(expenses'[last'.id]) = C32_Parties(expenses[last'.id])]_vars

\* an expense with its parties assigned and an edited amount was flagged
C32_Witness ==
    /\ last.op = "flag_suspicious"
    /\ last.status = 200
    /\ expenses[last.id].manager = "mgr"
    /\ expenses[last.id].amount = 2500

(***************************************************************************)
(* C33.  In every reachable state: a draft has no manager, finance_user,   *)
(* compliance_user or submitted_at; a submitted expense has submitted_at;  *)
(* and a draft or submitted expense has no approved_at, approved_by,       *)
(* rejected_at, flagged_at, flagged_by, processed_at or processed_by and   *)
(* empty payment_details.                                                  *)
(***************************************************************************)
C33_EarlyStatesUnmarked ==
    \A id \in Ids :
       LET e == expenses[id]
       IN /\ e.state = "draft"
             => /\ e.manager = NULL
                /\ e.finance_user = NULL
                /\ e.compliance_user = NULL
                /\ e.submitted_at = Unset
          /\ e.state = "submitted" => e.submitted_at # Unset
          /\ e.state \in {"draft", "submitted"}
             => /\ e.approved_at = Unset
                /\ e.approved_by = NULL
                /\ e.rejected_at = Unset
                /\ e.flagged_at = Unset
                /\ e.flagged_by = NULL
                /\ e.processed_at = Unset
                /\ e.processed_by = NULL
                /\ e.payment_details = Unset

\* an expense is a draft after a withdraw, and the flag and the override were
\* requested for it and refused
C33_Witness ==
    /\ last.op \in {"flag_suspicious", "executive_override"}
    /\ last.status # 200
    /\ last.id \in Ids
    /\ expenses[last.id].state = "draft"
    /\ <<"mgr", "view_expense", last.id>> \in perms

(***************************************************************************)
(* C34.  In every reachable state: an approved expense has approved_at and *)
(* approved_by; a paid expense has processed_at, processed_by,             *)
(* payment_details, approved_at and approved_by; a rejected expense has    *)
(* rejected_at; an expense on compliance hold has flagged_at and           *)
(* flagged_by.                                                             *)
(***************************************************************************)
C34_LateStatesMarked ==
    \A id \in Ids :
       LET e == expenses[id]
       IN /\ e.state = "approved" => (e.approved_at # Unset /\ e.approved_by # NULL)
          /\ e.state = "paid"
             => /\ e.processed_at # Unset
                /\ e.processed_by # NULL
                /\ e.payment_details # Unset
                /\ e.approved_at # Unset
                /\ e.approved_by # NULL
          /\ e.state = "rejected" => e.rejected_at # Unset
          /\ e.state = "compliance_hold" => (e.flagged_at # Unset /\ e.flagged_by # NULL)

\* a draft that was never submitted was approved by override and paid
C34_Witness ==
    \E id \in Ids :
       /\ expenses[id].state = "paid"
       /\ expenses[id].override_reason # ""
       /\ expenses[id].submitted_at = Unset

(***************************************************************************)
(* C35.  An expense that has been flagged and not been overridden since    *)
(* is on compliance hold or rejected.  A successful flag_suspicious puts   *)
(* the expense on compliance hold; while it is on hold or rejected no      *)
(* process_payment and no approve succeeds on it, it does not become paid, *)
(* a draft or submitted, and it becomes approved only by a successful      *)
(* executive_override.  So no payment follows a flag without an override   *)
(* in between.                                                             *)
(***************************************************************************)
C35_Held(e) == e.flagged_at # Unset /\ e.state \in {"compliance_hold", "rejected"}

C35_NoPaymentWhileFlagged ==
    [][\A id \in Ids :
          /\ (last'.op = "flag_suspicious" /\ last'.status = 200 /\ last'.id = id)
             => C35_Held(expenses'[id])
          /\ C35_Held(expenses[id])
             => /\ ~(last'.op \in {"process_payment", "approve"} /\ last'.id = id
                     /\ last'.status = 200)
                /\ expenses'[id].state \in {"compliance_hold", "rejected", "approved"}
                /\ expenses'[id].flagged_at # Unset
                /\ expenses'[id].state = "approved"
                   => (last'.op = "executive_override" /\ last'.id = id
                       /\ last'.status = 200)
          /\ (last'.op = "process_payment" /\ last'.id = id /\ last'.status = 200)
             => expenses[id].state = "approved"]_vars

\* a flagged expense was paid, after an override
C35_Witness ==
    /\ last.op = "process_payment"
    /\ last.status = 200
    /\ expenses[last.id].flagged_at # Unset
    /\ expenses[last.id].override_reason # ""

(***************************************************************************)
(* C36.  An expense that is paid was submitted successfully before: some   *)
(* user holds the view permission that a successful submit assigns.        *)
(***************************************************************************)
C36_WasSubmitted(id) == \E u \in Users : <<u, "view_expense", id>> \in perms

C36_PaidWasSubmitted ==
    \A id \in Ids : expenses[id].state = "paid" => C36_WasSubmitted(id)

(***************************************************************************)
(* C36, amended.  An expense becomes paid only from approved, by a         *)
(* successful process_payment; it becomes approved only by a successful    *)
(* approve of a submitted expense or by a successful executive_override;   *)
(* it becomes submitted only by a successful submit.  An approved or paid  *)
(* expense that was never submitted was approved by a vp or cfo.           *)
(***************************************************************************)
C36_PaidWasSubmittedOrOverridden ==
    [][\A id \in Ids :
          /\ (expenses'[id].state = "paid" /\ expenses[id].state # "paid")
             => /\ last'.op = "process_payment" /\ last'.id = id /\ last'.status = 200
                /\ expenses[id].state = "approved"
          /\ (expenses'[id].state = "approved" /\ expenses[id].state # "approved")
             => \/ /\ last'.op = "approve" /\ last'.id = id /\ last'.status = 200
                   /\ expenses[id].state = "submitted"
                   /\ C36_WasSubmitted(id)
                \/ last'.op = "executive_override" /\ last'.id = id /\ last'.status = 200
          /\ (expenses'[id].state = "submitted" /\ expenses[id].state # "submitted")
             => last'.op = "submit" /\ last'.id = id /\ last'.status = 200
          /\ (expenses'[id].state \in {"approved", "paid"} /\ ~C36_WasSubmitted(id)')
             => users[expenses'[id].approved_by].role \in {"vp", "cfo"}]_vars

\* an expense that was never submitted is paid
C36_Witness ==
    \E id \in Ids :
       /\ expenses[id].state = "paid"
       /\ ~C36_WasSubmitted(id)
       /\ expenses[id].approved_by = "vp"

(***************************************************************************)
(* Approvers' own expenses: the manager mgr and the vp create and submit   *)
(* expenses and, with the cfo, approve and override them.                  *)
(***************************************************************************)
OwnNext ==
    \/ Creates(LifeCycleExpenses, {"mgr", "vp"}, {2000}, {"TRAVEL"}, {0})
    \/ Requests({"submit", "withdraw"}, {"mgr", "vp"}, {Unset})
    \/ Requests({"approve", "executive_override"}, {"mgr", "vp", "cfo"},
                {At("board decision")})

OwnSpec == Init /\ [][OwnNext]_vars

(***************************************************************************)
(* C37.  In every reachable state the approved_by of an expense is not the *)
(* employee who owns it, and no approve or executive_override succeeds for *)
(* the owner of the expense.                                               *)
(***************************************************************************)
C37_NoSelfApproval ==
    [][\A id \in Ids :
          /\ expenses'[id].approved_by # expenses'[id].employee
          /\ (last'.op \in {"approve", "executive_override"} /\ last'.id = id
              /\ last'.actor = expenses[id].employee)
             => last'.status # 200]_vars

(***************************************************************************)
(* C38.  No request removes an object permission.  A successful submit     *)
(* leaves the assigned manager with view_expense and approve_expense and   *)
(* the finance user with view_expense on the expense, and assigns nothing  *)
(* else; after a successful withdraw the manager and the finance user that *)
(* were assigned still hold these permissions on the draft.                *)
(***************************************************************************)
C38_GrantsOnlyGrow ==
    [][/\ perms \subseteq perms'
       /\ (last'.op = "submit" /\ last'.status = 200)
          => LET id == last'.id
                 e == expenses'[id]
                 granted ==
                    (IF e.manager # NULL
                     THEN {<<e.manager, "view_expense", id>>,
                           <<e.manager, "approve_expense", id>>}
                     ELSE {})
                    \cup (IF e.finance_user # NULL
                          THEN {<<e.finance_user, "view_expense", id>>}
                          ELSE {})
             IN granted \subseteq perms' /\ perms' \ perms \subseteq granted
       /\ (last'.op = "withdraw" /\ last'.status = 200)
          => LET id == last'.id
                 e == expenses[id]
             IN /\ expenses'[id].manager = NULL
                /\ e.manager # NULL
                   => {<<e.manager, "view_expense", id>>,
                       <<e.manager, "approve_expense", id>>} \subseteq perms'
                /\ e.finance_user # NULL
                   => <<e.finance_user, "view_expense", id>> \in perms']_vars

\* the former manager holds both permissions on a withdrawn draft
C38_Witness ==
    /\ last.op = "withdraw"
    /\ last.status = 200
    /\ expenses[last.id].state = "draft"
    /\ expenses[last.id].manager = NULL
    /\ {<<"mgr", "view_expense", last.id>>, <<"mgr", "approve_expense", last.id>>,
        <<"fin", "view_expense", last.id>>} \subseteq perms

(***************************************************************************)
(* Payment handlers that overlap: an approved expense of emp and           *)
(* process_payment requests of the finance users fin and finX.             *)
(***************************************************************************)
PayNext ==
    \/ Creates(LifeCycleExpenses, {"emp"}, {2000}, {"TRAVEL"}, {0})
    \/ Requests({"submit"}, {"emp"}, {Unset})
    \/ Requests({"approve"}, {"mgr"}, {Unset})
    \/ Begins({"process_payment"}, {"fin", "finX"})
    \/ Finishes

PaySpec == Init /\ [][PayNext]_vars

(***************************************************************************)
(* C39.  When two process_payment requests of finance users who may        *)
(* process payments overlap on the same approved expense (each read the    *)
(* expense as approved, one of them while the other was in flight), at     *)
(* most one of the two succeeds, so at most one payment record is made.    *)
(***************************************************************************)
C39_AtMostOnePayment ==
    \A a, b \in DOMAIN workers :
       (/\ a # b
        /\ workers[a].pc = "done" /\ workers[b].pc = "done"
        /\ workers[a].op = "process_payment" /\ workers[b].op = "process_payment"
        /\ workers[a].id = workers[b].id
        /\ users[workers[a].actor].role = "finance"
        /\ users[workers[a].actor].is_active_approver
        /\ users[workers[b].actor].role = "finance"
        /\ users[workers[b].actor].is_active_approver
        /\ workers[a].e.state = "approved" /\ workers[b].e.state = "approved"
        /\ (a \in workers[b].during \/ b \in workers[a].during))
       => ~(workers[a].status = 200 /\ workers[b].status = 200)

(***************************************************************************)
(* C40.  Once an expense has left draft, no request changes its amount,    *)
(* expense_category or department, so the amount of an approved or paid    *)
(* expense is the amount that was approved.                                *)
(***************************************************************************)
C40_AmountFixedAfterDraft ==
    [][\A id \in Ids :
          expenses[id].state # "draft"
          => /\ expenses'[id].amount = expenses[id].amount
             /\ expenses'[id].expense_category = expenses[id].expense_category
             /\ expenses'[id].department = expenses[id].department]_vars

====
